---- MODULE Spec2Model ----
(***************************************************************************)
(* shfrp: a parameter store (data.json, guarded by an inter-process lock   *)
(* and a process-local lock), a file-backed event bus (the "events" file   *)
(* followed by "tail -f -n 0") and the run loop that re-runs a templated   *)
(* shell command when a parameter it refers to changes.                    *)
(*                                                                         *)
(* Python dicts are functions whose DOMAIN is the set of keys present, so  *)
(* that a lookup of a key that is absent (KeyError) is visible.  JSON text *)
(* on disk is represented by the value it encodes: the documents and the   *)
(* messages hold only strings, lists and dicts with string keys.           *)
(***************************************************************************)
EXTENDS Naturals, Sequences, FiniteSets, TLC

\* ---------------------------------------------------------------- bounds
\* Total number of command-line invocations (set / reset / params) made
\* by the client processes in one behaviour.
MaxCmds == 2
\* Iterations of the run loop's "while True" in one behaviour
MaxIters == 3
\* Lines the file watcher reads from inotifywait in one behaviour
MaxFileEvents == 2

\* ------------------------------------------------------------ universes
Names == {"x", "y"}                 \* parameter names used on the command line
Values == {"a", "b"}                \* parameter values used on the command line
Clients == {"c1", "c2"}             \* processes running set / reset / params
LoopProc == "loop"                  \* the process running "shfrp run"
Procs == Clients \cup {LoopProc}

\* ------------------------------------------------------- python helpers
EmptyDict == << >>
None == [none |-> TRUE]
Some(v) == [none |-> FALSE, value |-> v]    \* a value where None may stand
Range(s) == {s[i] : i \in DOMAIN s}
Last(s) == s[Len(s)]
Has(d, k) == k \in DOMAIN d
Put(d, k, v) == [j \in DOMAIN d \cup {k} |-> IF j = k THEN v ELSE d[j]]
\* dict.setdefault(k, v)
SetDefault(d, k, v) == IF Has(d, k) THEN d ELSE Put(d, k, v)
\* dict.update(**pairs)
Update(d, pairs) ==
    [j \in DOMAIN d \cup DOMAIN pairs |-> IF j \in DOMAIN pairs THEN pairs[j] ELSE d[j]]
\* list(a_set): some enumeration of the set
SetToList(S) == CHOOSE s \in [1..Cardinality(S) -> S] : Range(s) = S
Min(S) == CHOOSE i \in S : \A j \in S : i <= j

Returned(v) == [kind |-> "return", value |-> v]
Raised(e, k) == [kind |-> "raise", exc |-> e, key |-> k]
NoResult == [kind |-> "none"]

VARIABLES
    file,         \* data.json: [exists, data]
    lockHolders,  \* processes holding InterProcessLock(data.json.lck)
    dataLock,     \* processes whose module-level DATA_LOCK is held
    pc,           \* where each process (its main thread) is
    cmd,          \* the command line of each client process
    op,           \* the State operation each process is performing
    local,        \* the dict "data" a process holds inside with_json_data
    result,       \* what the State operation returned or raised
    ncmds,        \* command-line invocations made so far
    lastSet,      \* per name, the value of the set call that ended last
    log,          \* the events file: the lines appended so far
    args,         \* the command line of "shfrp run"
    tail,         \* the run loop's "tail -f" child: [state, pos]
    attachLen,    \* how many lines the events file held when tail began to follow
    yielded,      \* the messages get_messages has yielded so far
    cw,           \* the thread running wait_for_changes: none/running/done
    pw,           \* the thread running p.wait: none/running/done
    proc,         \* the command process of this iteration
    outFile,      \* the file named by --output
    info,         \* the keys show_info has reported as missing
    execs,        \* the commands Popen has started, in order
    exc,          \* the exception that is ending the run loop, or "none"
    events,       \* the threading.Events of this iteration's ThreadWaiter that are set
    watcher,      \* the HackFileWatcher thread: [state, files, seen]
    kills,        \* the kill_tree call made last, if any: [cw, hit]
    iters         \* iterations of "while True" started

storeVars == <<file, lockHolders, dataLock, local, result, lastSet>>
clientVars == <<cmd, ncmds>>
loopVars == <<args, tail, attachLen, yielded, cw, pw, proc, outFile, info, execs>>
runVars == <<exc, events, watcher, kills, iters>>
vars == <<file, lockHolders, dataLock, pc, cmd, op, local, result, ncmds, lastSet, log,
          args, tail, attachLen, yielded, cw, pw, proc, outFile, info, execs,
          exc, events, watcher, kills, iters>>

\* ------------------------------------------------------ parameter store
\* read_json: the decoded document, or an empty dict when there is no file
read_json(f) == IF f.exists THEN f.data ELSE EmptyDict

\* State.with_data: the defaults put into the document before the body
\* runs.  The second key is spelled as in the source.
with_data(data) ==
    SetDefault(SetDefault(SetDefault(data,
        "listened", EmptyDict),
        "paraeters", EmptyDict),
        "parameter.history", EmptyDict)

\* A set that updates the value and leaves the history alone
set_without_history(data, pairs) ==
    IF ~Has(data, "parameters")
    THEN [data |-> data, result |-> Raised("KeyError", "parameters")]
    ELSE [data |-> [data EXCEPT !["parameters"] = Update(@, pairs)],
          result |-> Returned(None)]

\* The body of State.set: [data, result]
AppendHistory(hist, pairs) ==
    [k \in DOMAIN hist \cup DOMAIN pairs |->
        IF k \in DOMAIN pairs
        THEN Append(IF Has(hist, k) THEN hist[k] ELSE << >>, pairs[k])
        ELSE hist[k]]

set(data, pairs) ==
    IF ~Has(data, "parameters")
    THEN [data |-> data, result |-> Raised("KeyError", "parameters")]
    ELSE [data |-> [data EXCEPT
                      !["parameters"] = Update(@, pairs),
                      !["parameter.history"] = AppendHistory(@, pairs)],
          result |-> Returned(None)]

\* The body of State.get_values: the dict comprehension looks the keys up
\* in the order given; the KeyError of the first failing lookup becomes
\* ShfrpNoValue(key).
get_values(data, keys) ==
    IF keys = << >>
    THEN [data |-> data, result |-> Returned(EmptyDict)]
    ELSE IF ~Has(data, "parameters")
    THEN [data |-> data, result |-> Raised("ShfrpNoValue", "parameters")]
    ELSE LET params == data["parameters"]
             missing == {i \in DOMAIN keys : ~Has(params, keys[i])}
         IN  IF missing = {}
             THEN [data |-> data,
                   result |-> Returned([k \in Range(keys) |-> params[k]])]
             ELSE [data |-> data,
                   result |-> Raised("ShfrpNoValue", keys[Min(missing)])]

\* The body of State.with_listened: the rows [name, value, listeners, history]
with_listened(data) ==
    IF DOMAIN data["listened"] # {} /\ ~Has(data, "parameters")
    THEN [data |-> data, result |-> Raised("KeyError", "parameters")]
    ELSE [data |-> data,
          result |-> Returned(
            {[name |-> n,
              value |-> IF Has(data["parameters"], n)
                        THEN Some(data["parameters"][n]) ELSE None,
              listeners |-> data["listened"][n],
              history |-> IF Has(data["parameter.history"], n)
                          THEN Some(data["parameter.history"][n]) ELSE None]
             : n \in DOMAIN data["listened"]})]

\* The first with block of State.with_listen: the listener appended to the
\* list of every name, once per occurrence of the name in "listened"
RECURSIVE with_listen_add(_, _, _)
with_listen_add(listened, listener, names) ==
    IF names = << >> THEN listened
    ELSE LET param == Head(names)
             d == SetDefault(listened, param, << >>)
         IN  with_listen_add([d EXCEPT ![param] = Append(@, listener)],
                             listener, Tail(names))

with_listen(data, listener, names) ==
    [data |-> [data EXCEPT !["listened"] = with_listen_add(@, listener, names)],
     result |-> Returned(None)]

\* list.remove(x): the first occurrence is taken out
IndexOf(s, x) == Min({i \in DOMAIN s : s[i] = x})
Remove(s, x) ==
    LET i == IndexOf(s, x)
    IN  [j \in 1..(Len(s) - 1) |-> IF j < i THEN s[j] ELSE s[j + 1]]

\* The loop of the finally block of State.with_listen: [listened, ok];
\* list.remove raises ValueError when the listener is not in the list.
RECURSIVE with_listen_remove(_, _, _)
with_listen_remove(listened, listener, names) ==
    IF names = << >> THEN [listened |-> listened, ok |-> TRUE]
    ELSE LET param == Head(names)
             d == SetDefault(listened, param, << >>)
         IN  IF listener \in Range(d[param])
             THEN with_listen_remove([d EXCEPT ![param] = Remove(@, listener)],
                                     listener, Tail(names))
             ELSE [listened |-> d, ok |-> FALSE]

\* An exit that leaves the lists as they are
with_listen_exit_keeps(data, listener, names) ==
    [data |-> data, result |-> Returned(None)]

\* The with block in the finally clause of State.with_listen
with_listen_exit(data, listener, names) ==
    LET r == with_listen_remove(data["listened"], listener, names)
    IN  [data |-> [data EXCEPT !["listened"] = r.listened],
         result |-> IF r.ok THEN Returned(None) ELSE Raised("ValueError", listener)]

\* The operation a process performs inside State.with_data
Apply(o, data) ==
    CASE o.name = "set" -> set(data, o.pairs)
      [] o.name = "get_values" -> get_values(data, o.keys)
      [] o.name = "with_listened" -> with_listened(data)
      [] o.name = "with_listen" -> with_listen(data, o.listener, o.names)
      [] o.name = "with_listen_exit" -> with_listen_exit(data, o.listener, o.names)

\* A lock that never makes anybody wait
IPLockAlwaysFree == TRUE

\* fasteners.InterProcessLock(data_file + '.lck') can be taken
IPLockFree == lockHolders = {}

\* with_json_data up to the yield: both locks taken, the document read,
\* with_data's defaults applied.
Enter(p) ==
    /\ pc[p] = "enter"
    /\ IPLockFree
    /\ p \notin dataLock
    /\ lockHolders' = lockHolders \cup {p}
    /\ dataLock' = dataLock \cup {p}
    /\ local' = [local EXCEPT ![p] = with_data(read_json(file))]
    /\ pc' = [pc EXCEPT ![p] = "body"]
    /\ UNCHANGED <<file, op, result, lastSet, log, clientVars, loopVars, runVars>>

\* The body of the with block
Body(p) ==
    /\ pc[p] = "body"
    /\ LET r == Apply(op[p], local[p])
       IN  /\ local' = [local EXCEPT ![p] = r.data]
           /\ result' = [result EXCEPT ![p] = r.result]
    /\ pc' = [pc EXCEPT ![p] = "exit"]
    /\ UNCHANGED <<file, lockHolders, dataLock, op, lastSet, log, clientVars, loopVars, runVars>>

\* Where a process goes when its State operation has ended.  In a client
\* an exception is caught nowhere and ends the process.  In the run loop
\* ShfrpNoValue is caught at line 301; any other exception raised inside
\* the body of "with state.with_listen" goes to its finally clause, one
\* raised by with_listen itself (before its try, or in its finally) goes
\* to the finally clause of with_client.
AfterOp(p) ==
    IF p \in Clients
    THEN (IF result[p].kind = "raise" THEN "crashed"
          ELSE IF op[p].name = "set" THEN "publish" ELSE "done")
    ELSE (CASE op[p].name = "with_listen" ->
                 IF result[p].kind = "raise" THEN "stop_client" ELSE "resolve"
            [] op[p].name = "get_values" ->
                 IF result[p].kind = "return" THEN "render"
                 ELSE IF result[p].exc = "ShfrpNoValue" THEN "show_info"
                 ELSE "finally"
            [] op[p].name = "with_listen_exit" -> "stop_client")

\* A way out of with_json_data that writes nothing
ExitUnwritten(p) ==
    /\ pc[p] = "exit"
    /\ lockHolders' = lockHolders \ {p}
    /\ dataLock' = dataLock \ {p}
    /\ local' = [local EXCEPT ![p] = EmptyDict]
    /\ lastSet' = IF op[p].name = "set" THEN Update(lastSet, op[p].pairs) ELSE lastSet
    /\ pc' = [pc EXCEPT ![p] = AfterOp(p)]
    /\ UNCHANGED <<file, op, result, log, clientVars, loopVars, runVars>>

\* with_json_data after the yield: the document is dumped and written back
\* unless the body raised; the locks are released either way.  lastSet
\* notes the set call that ended last, whether it returned or raised.
Exit(p) ==
    /\ pc[p] = "exit"
    /\ file' = IF result[p].kind = "raise" THEN file
               ELSE [exists |-> TRUE, data |-> local[p]]
    /\ lockHolders' = lockHolders \ {p}
    /\ dataLock' = dataLock \ {p}
    /\ local' = [local EXCEPT ![p] = EmptyDict]
    /\ lastSet' = IF op[p].name = "set" THEN Update(lastSet, op[p].pairs) ELSE lastSet
    /\ pc' = [pc EXCEPT ![p] = AfterOp(p)]
    /\ UNCHANGED <<op, result, log, clientVars, loopVars, runVars>>

\* ------------------------------------------------------------ event bus
\* A message whose changed list names the keys of changes only
MessagesUpdateChangesOnly(changes, changed, ident) ==
    [type |-> "parameter_update",
     changes |-> changes,
     ident |-> ident,
     changed |-> SetToList(IF changes = None THEN {} ELSE DOMAIN changes)]

\* Messages.update(changes, changed): "changed" is a list, empty when the
\* argument is left out (None and the empty list count the same there).
MessagesUpdate(changes, changed, ident) ==
    [type |-> "parameter_update",
     changes |-> changes,
     ident |-> ident,
     changed |-> SetToList((IF changes = None THEN {} ELSE DOMAIN changes)
                           \cup Range(changed))]

\* Publisher.push: one line appended to the events file
push(lines, message) == Append(lines, message)

\* ------------------------------------------- set / reset / params (main)
SetCmd(k, v) == [name |-> "set", key |-> k, value |-> v]
ResetCmd(k) == [name |-> "reset", parameter |-> k]
ParamsCmd == [name |-> "params"]
\* stream-param: "lines" is what is still to be read from stdin, each line
\* with its newline
StreamCmd(k, lines) == [name |-> "stream-param", param |-> k, lines |-> lines]

NoOp == [name |-> "none"]

\* A client process is started with a command line; main dispatches on it.
Invoke(c, commands) ==
    /\ pc[c] \in {"idle", "done", "crashed"}
    /\ ncmds < MaxCmds
    /\ \E a \in commands :
        /\ cmd' = [cmd EXCEPT ![c] = a]
        /\ op' = [op EXCEPT ![c] =
                    CASE a.name = "set" ->
                           [name |-> "set", pairs |-> Put(EmptyDict, a.key, a.value)]
                      [] a.name = "stream-param" /\ a.lines # << >> ->
                           [name |-> "set", pairs |-> Put(EmptyDict, a.param, Head(a.lines))]
                      [] a.name = "params" -> [name |-> "with_listened"]
                      [] OTHER -> NoOp]
        /\ pc' = [pc EXCEPT ![c] =
                    CASE a.name = "reset" -> "publish"
                      [] a.name = "stream-param" /\ a.lines = << >> -> "done"
                      [] OTHER -> "enter"]
    /\ ncmds' = ncmds + 1
    /\ result' = [result EXCEPT ![c] = NoResult]
    /\ UNCHANGED <<file, lockHolders, dataLock, local, lastSet, log, loopVars, runVars>>

\* main, lines 383-391: the message is built, the publisher opened, the
\* message pushed.  In stream_param (lines 473-480) the push is followed
\* by the next line of stdin, if there is one, and its set.
Publish(c) ==
    /\ pc[c] = "publish"
    /\ LET message ==
             IF cmd[c].name = "reset"
             THEN MessagesUpdate(None, <<cmd[c].parameter>>, Len(log) + 1)
             ELSE MessagesUpdate(op[c].pairs, << >>, Len(log) + 1)
       IN  log' = push(log, message)
    /\ IF cmd[c].name = "stream-param" /\ Len(cmd[c].lines) > 1
       THEN /\ cmd' = [cmd EXCEPT ![c].lines = Tail(@)]
            /\ op' = [op EXCEPT ![c] =
                        [name |-> "set",
                         pairs |-> Put(EmptyDict, cmd[c].param, cmd[c].lines[2])]]
            /\ pc' = [pc EXCEPT ![c] = "enter"]
       ELSE /\ pc' = [pc EXCEPT ![c] = "done"]
            /\ UNCHANGED <<cmd, op>>
    /\ UNCHANGED <<storeVars, ncmds, loopVars, runVars>>

\* The process running set or stream-param stops (it is killed, or the
\* machine goes down) when state.set has returned and before the push.
SetterStops(c) ==
    /\ pc[c] = "publish"
    /\ cmd[c].name \in {"set", "stream-param"}
    /\ pc' = [pc EXCEPT ![c] = "stopped"]
    /\ UNCHANGED <<storeVars, op, log, clientVars, loopVars, runVars>>

\* ---------------------------------------------------- Subscriber (_Client)
NoTail == [state |-> "none", pos |-> 0]

\* A tail that also prints the last line the file already holds ("-n 1")
tail_start_pos_last_line(lines) == IF Len(lines) > 0 THEN Len(lines) - 1 ELSE 0

\* The tail child reaches its follow loop: with "-n 0" it starts at the
\* end of the file as it is then.
tail_start_pos(lines) == Len(lines)

TailAttach ==
    /\ tail.state = "started"
    /\ tail' = [state |-> "following", pos |-> tail_start_pos(log)]
    /\ attachLen' = Len(log)
    /\ UNCHANGED <<storeVars, pc, op, log, clientVars,
                   args, yielded, cw, pw, proc, outFile, info, execs, runVars>>

\* The tail child dies (killed from outside, or the events file is taken
\* away from under it).  The lines it had written to the pipe by then can
\* still be read: "end" is the last of them.
TailDies ==
    /\ tail.state \in {"started", "following"}
    /\ \E e \in tail.pos..(IF tail.state = "following" THEN Len(log) ELSE tail.pos) :
          tail' = [state |-> "dead", pos |-> tail.pos, end |-> e]
    /\ UNCHANGED <<storeVars, pc, op, log, clientVars,
                   args, attachLen, yielded, cw, pw, proc, outFile, info, execs, runVars>>

\* get_messages has a line to read
HasLine ==
    \/ tail.state = "following" /\ tail.pos < Len(log)
    \/ tail.state = "dead" /\ tail.pos < tail.end
\* readline returns '' (the pipe is at end of file): get_messages breaks
\* out of its loop
AtEOF ==
    \/ tail.state = "dead" /\ tail.pos >= tail.end
    \/ tail.state = "stopped"
\* json.loads of the next line of the tail child's output
NextMessage == log[tail.pos + 1]

\* A wait that ends on any parameter_update, whatever it changed
wait_for_changes_any_update(message, variables, files) ==
    IF message.type = "file_change"
    THEN message.file \in Range(files)
    ELSE message.type = "parameter_update"

\* EventBus.wait_for_changes, lines 147-151: whether this message ends the wait
wait_for_changes_returns(message, variables, files) ==
    IF message.type = "file_change"
    THEN message.file \in Range(files)
    ELSE /\ message.type = "parameter_update"
         /\ Range(message.changed) \cap Range(variables) # {}

\* ------------------------------------------------------------- run loop
\* referenced_names(expr): the template is kept as the list of the names
\* it refers to; expr.format(**values) is then the list of their values.
needed_args == args.expr
Render(expr, values) == [i \in DOMAIN expr |-> values[expr[i]]]
Command == Render(args.expr, result[LoopProc].value)
\* A loop that listens for the names of --listen only
TriggersListenOnly == args.listen

\* the names and files the loop's wait_for_changes is called with
Triggers == needed_args \o args.listen
ListenFiles == args.listen_file

NoProcess == [root |-> "none", kids |-> FALSE]
NoWatcher == [state |-> "none", files |-> << >>, seen |-> 0]

\* ---------------------------------------------------------- file names
\* A file name is the sequence of its components, "/" in front when it
\* starts at the root; a line of text is a sequence of such tokens with
\* " " and "\n" among them.
Getcwd == <<"/", "w">>                  \* the directory shfrp is run in
Dirs == {<<"/", "w", "d">>}             \* the names that are directories

\* os.path.isabs
isabs(f) == f # << >> /\ f[1] = "/"

\* os.path.normpath of a name that starts at the root: "." is dropped and
\* ".." takes the component before it away
RECURSIVE normparts(_, _)
normparts(parts, acc) ==
    IF parts = << >> THEN acc
    ELSE IF Head(parts) = "." THEN normparts(Tail(parts), acc)
    ELSE IF Head(parts) = ".."
         THEN normparts(Tail(parts),
                        IF acc = << >> THEN acc ELSE SubSeq(acc, 1, Len(acc) - 1))
    ELSE normparts(Tail(parts), Append(acc, Head(parts)))
normpath(f) == <<"/">> \o normparts(Tail(f), << >>)

\* os.path.abspath: normpath(join(getcwd(), f))
abspath(f) == normpath(IF isabs(f) THEN f ELSE Getcwd \o f)

\* wait_for_changes, line 141
non_abs_files(files) == SelectSeq(files, LAMBDA f : ~isabs(f))

\* The lines "inotifywait -m" prints for a change on a watched name
\* ("%w %,e %f"): for a file the name, the events and nothing; for a
\* directory the name with "/" after it, the events and the entry changed.
InotifyLines(w) ==
    IF w \in Dirs
    THEN {w \o <<"/", " ", "CREATE", " ", "g", "\n">>}
    ELSE {w \o <<" ", "MODIFY", " ", "\n">>,
          w \o <<" ", "CLOSE_WRITE,CLOSE", " ", "\n">>}

\* str.rstrip(c) and str.rsplit(c, 1)[0]
RECURSIVE rstrip(_, _)
rstrip(line, c) ==
    IF line # << >> /\ Last(line) = c THEN rstrip(SubSeq(line, 1, Len(line) - 1), c)
    ELSE line
Max(S) == CHOOSE i \in S : \A j \in S : i >= j
rsplit_head(line, c) ==
    SubSeq(line, 1, Max({i \in DOMAIN line : line[i] = c}) - 1)

\* Messages.file_change
MessagesFileChange(f) == [type |-> "file_change", file |-> f]

\* HackFileWatcher.__init__, line 264
watched_names(files) == [i \in DOMAIN files |-> abspath(files[i])]

\* HackFileWatcher.run, line 269: the thread spawned at line 287 starts
\* inotifywait on the names
FileWatcherRun ==
    /\ watcher.state = "spawned"
    /\ pc[LoopProc] # "ended"
    /\ watcher' = [watcher EXCEPT !.state = "watching"]
    /\ UNCHANGED <<storeVars, pc, op, log, clientVars, loopVars, exc, events, kills, iters>>

\* HackFileWatcher.run, lines 272-277: one line of inotifywait is read,
\* cut, and pushed as a file_change message
FileWatcherStep ==
    /\ watcher.state = "watching"
    /\ pc[LoopProc] # "ended"
    /\ watcher.seen < MaxFileEvents
    /\ \E w \in Range(watcher.files) : \E line \in InotifyLines(w) :
          LET filename == rsplit_head(rstrip(rstrip(line, "\n"), " "), " ")
          IN  log' = push(log, MessagesFileChange(filename))
    /\ watcher' = [watcher EXCEPT !.seen = @ + 1]
    /\ UNCHANGED <<storeVars, pc, op, clientVars, loopVars, exc, events, kills, iters>>

\* wait_for_changes, lines 141-143: the names are checked when the wait
\* is called
FilesValid == non_abs_files(ListenFiles) = << >>

\* ValueError out of the calls at lines 303 and 309 (main thread)
WaitMainInvalid ==
    /\ pc[LoopProc] = "wait_main"
    /\ ~FilesValid
    /\ exc' = "ValueError"
    /\ pc' = [pc EXCEPT ![LoopProc] = "finally"]
    /\ UNCHANGED <<storeVars, op, log, clientVars, loopVars, events, watcher, kills, iters>>

\* ValueError in the thread spawned at line 333
WaitThreadInvalid ==
    /\ cw = "running"
    /\ ~FilesValid
    /\ cw' = "ValueError"
    /\ UNCHANGED <<storeVars, pc, op, log, clientVars,
                   args, tail, attachLen, yielded, pw, proc, outFile, info, execs, runVars>>

\* ------------------------------------------------- the steps of the loop
OldContent == [kind |-> "old"]
EmptyFile == [kind |-> "empty"]
OutputOf(command) == [kind |-> "output", of |-> command]

\* run_loop, lines 283-297: with --listen-file the file watcher thread
\* is spawned; the subscriber is started, then with_listen
LoopStart ==
    /\ pc[LoopProc] = "start"
    /\ watcher' = IF args.listen_file # << >>
                  THEN [state |-> "spawned", files |-> watched_names(args.listen_file),
                        seen |-> 0]
                  ELSE watcher
    /\ tail' = [state |-> "started", pos |-> 0]
    /\ op' = [op EXCEPT ![LoopProc] =
                [name |-> "with_listen", listener |-> LoopProc, names |-> Triggers]]
    /\ pc' = [pc EXCEPT ![LoopProc] = "enter"]
    /\ UNCHANGED <<storeVars, log, clientVars,
                   args, attachLen, yielded, cw, pw, proc, outFile, info, execs,
                   exc, events, kills, iters>>

\* lines 298-300: an iteration of "while True" starts with
\* state.get_values(needed_args)
LoopResolve ==
    /\ pc[LoopProc] = "resolve"
    /\ iters < MaxIters
    /\ iters' = iters + 1
    /\ op' = [op EXCEPT ![LoopProc] = [name |-> "get_values", keys |-> needed_args]]
    /\ pc' = [pc EXCEPT ![LoopProc] = "enter"]
    /\ UNCHANGED <<storeVars, log, clientVars, loopVars, exc, events, watcher, kills>>

\* lines 301-303: ShfrpNoValue is reported, then the loop waits
LoopShowInfo ==
    /\ pc[LoopProc] = "show_info"
    /\ info' = info \cup {result[LoopProc].key}
    /\ pc' = [pc EXCEPT ![LoopProc] = "wait_main"]
    /\ UNCHANGED <<storeVars, op, log, clientVars,
                   args, tail, attachLen, yielded, cw, pw, proc, outFile, execs, runVars>>

\* lines 306-312: the command is rendered; with --echo it is printed and
\* the loop waits; otherwise the output file, if any, is opened with 'w'.
open_output(content) == EmptyFile

LoopRender ==
    /\ pc[LoopProc] = "render"
    /\ IF args.echo
       THEN /\ pc' = [pc EXCEPT ![LoopProc] = "wait_main"]
            /\ UNCHANGED outFile
       ELSE /\ pc' = [pc EXCEPT ![LoopProc] = "popen"]
            /\ outFile' = IF args.output THEN open_output(outFile) ELSE outFile
    /\ UNCHANGED <<storeVars, op, log, clientVars,
                   args, tail, attachLen, yielded, cw, pw, proc, info, execs, runVars>>

\* lines 320-322: subprocess.Popen(command, shell=True)
LoopPopen ==
    /\ pc[LoopProc] = "popen"
    /\ \E k \in BOOLEAN : proc' = [root |-> "running", kids |-> k]
    /\ execs' = Append(execs, Command)
    /\ pc' = [pc EXCEPT ![LoopProc] = IF args.output THEN "communicate" ELSE "spawn"]
    /\ UNCHANGED <<storeVars, op, log, clientVars,
                   args, tail, attachLen, yielded, cw, pw, outFile, info, runVars>>

\* lines 324-331: p.communicate() returns when the process has ended; the
\* output goes to a temporary file that is renamed over the output file.
LoopCommunicate ==
    /\ pc[LoopProc] = "communicate"
    /\ proc.root # "running"
    /\ outFile' = OutputOf(Command)
    /\ pc' = [pc EXCEPT ![LoopProc] = "spawn"]
    /\ UNCHANGED <<storeVars, op, log, clientVars,
                   args, tail, attachLen, yielded, cw, pw, proc, info, execs, runVars>>

\* lines 333-340: the change-wait thread is spawned and, with --kill, the
\* thread that waits for the process
LoopSpawn ==
    /\ pc[LoopProc] = "spawn"
    /\ cw' = "running"
    /\ pw' = IF args.kill THEN "running" ELSE pw
    /\ pc' = [pc EXCEPT ![LoopProc] = IF args.kill THEN "waiter_wait" ELSE "p_wait"]
    /\ UNCHANGED <<storeVars, op, log, clientVars,
                   args, tail, attachLen, yielded, proc, outFile, info, execs, runVars>>

\* The threads a ThreadWaiter has spawned: the change-wait and the wait for
\* the process.  A thread is "running" until its function has returned
\* ("done") or raised (the name of the exception).
Tasks == {"cw", "pw"}
TaskState(t) == IF t = "cw" THEN cw ELSE pw
Finished(st) == st \notin {"none", "running"}

\* ThreadWaiter.wrap, line 453: event.set() in the finally clause, once
\* the function has returned or raised
WrapEventSet(t) ==
    /\ Finished(TaskState(t))
    /\ t \notin events
    /\ events' = events \cup {t}
    /\ UNCHANGED <<storeVars, pc, op, log, clientVars, loopVars, exc, watcher, kills, iters>>

\* ThreadWaiter.wrap, line 454: self._event.set() (setting an event that
\* is set changes nothing)
WrapSharedSet(t) ==
    /\ t \in events
    /\ "shared" \notin events
    /\ events' = events \cup {"shared"}
    /\ UNCHANGED <<storeVars, pc, op, log, clientVars, loopVars, exc, watcher, kills, iters>>

\* A wait that returns at once
WaiterNeverWaits == TRUE

\* ThreadWaiter.wait: self._event.wait()
WaiterEventSet == "shared" \in events

LoopWaiterWait ==
    /\ pc[LoopProc] = "waiter_wait"
    /\ WaiterEventSet
    /\ pc' = [pc EXCEPT ![LoopProc] = "kill_tree"]
    /\ UNCHANGED <<storeVars, op, log, clientVars, loopVars, runVars>>

\* kill_tree: the children, then the parent; psutil.NoSuchProcess (the
\* process is gone) is swallowed at lines 344-345.
kill_tree(p) ==
    IF p.root = "running" THEN [root |-> "killed", kids |-> FALSE] ELSE p

\* What p.pid refers to when psutil.Process(p.pid) looks it up (line 483):
\* the command while it runs; the dead command until it is waited for;
\* once p.wait() has returned in the thread of line 338 the number is
\* free again, and it is nobody's (psutil.NoSuchProcess) or it has been
\* given to a new process of somebody else.
PidRefersTo ==
    IF proc.root = "running" THEN {"command"}
    ELSE IF pw = "done" THEN {"nobody", "stranger"}
    ELSE {"zombie"}

\* lines 341-345: kill_tree(p) is called when waiter.wait() has returned
LoopKillTree ==
    /\ pc[LoopProc] = "kill_tree"
    /\ \E hit \in PidRefersTo : kills' = {[cw |-> cw, hit |-> hit]}
    /\ proc' = kill_tree(proc)
    /\ pc' = [pc EXCEPT ![LoopProc] = "p_wait"]
    /\ UNCHANGED <<storeVars, op, log, clientVars,
                   args, tail, attachLen, yielded, cw, pw, outFile, info, execs,
                   exc, events, watcher, iters>>

\* A main thread that goes on without waiting for the process
LoopPWaitSkipped ==
    /\ pc[LoopProc] = "p_wait"
    /\ pc' = [pc EXCEPT ![LoopProc] = "event_wait"]
    /\ UNCHANGED <<storeVars, op, log, clientVars, loopVars, runVars>>

\* line 348: p.wait()
LoopPWait ==
    /\ pc[LoopProc] = "p_wait"
    /\ proc.root # "running"
    /\ pc' = [pc EXCEPT ![LoopProc] = "event_wait"]
    /\ UNCHANGED <<storeVars, op, log, clientVars, loopVars, runVars>>

\* What is left of a ThreadWaiter's threads when the main thread has
\* passed p.wait() and the change-wait's event: the process has ended, so
\* each thread has only to return and set events of this waiter, which
\* nothing else reads.  Those steps are taken before the next iteration.
WrapsOver == \A t \in Tasks : TaskState(t) = "none" \/ {t, "shared"} \subseteq events

\* line 353: event_wait_event.wait(), then the next iteration, which makes
\* a new ThreadWaiter.
LoopEventWait ==
    /\ pc[LoopProc] = "event_wait"
    /\ "cw" \in events
    /\ WrapsOver
    /\ cw' = "none"
    /\ pw' = "none"
    /\ events' = {}
    /\ proc' = NoProcess
    /\ pc' = [pc EXCEPT ![LoopProc] = "resolve"]
    /\ UNCHANGED <<storeVars, op, log, clientVars,
                   args, tail, attachLen, yielded, outFile, info, execs,
                   exc, watcher, kills, iters>>

\* wait_for_changes called in the main thread (lines 303 and 309): one
\* message is read; the wait ends if it matches.
WaitMainStep ==
    /\ pc[LoopProc] = "wait_main"
    /\ FilesValid
    /\ HasLine
    /\ tail' = [tail EXCEPT !.pos = @ + 1]
    /\ yielded' = Append(yielded, NextMessage)
    /\ pc' = [pc EXCEPT ![LoopProc] =
                IF wait_for_changes_returns(NextMessage, Triggers, ListenFiles)
                THEN "resolve" ELSE "wait_main"]
    /\ UNCHANGED <<storeVars, op, log, clientVars,
                   args, attachLen, cw, pw, proc, outFile, info, execs, runVars>>

\* wait_for_changes in the thread spawned at line 333
WaitThreadStep ==
    /\ cw = "running"
    /\ FilesValid
    /\ HasLine
    /\ tail' = [tail EXCEPT !.pos = @ + 1]
    /\ yielded' = Append(yielded, NextMessage)
    /\ cw' = IF wait_for_changes_returns(NextMessage, Triggers, ListenFiles)
             THEN "done" ELSE "running"
    /\ UNCHANGED <<storeVars, pc, op, log, clientVars,
                   args, attachLen, pw, proc, outFile, info, execs, runVars>>

\* ThreadWaiter.wrap around p.wait (line 338)
ProcWaitThread ==
    /\ pw = "running"
    /\ proc.root # "running"
    /\ pw' = "done"
    /\ UNCHANGED <<storeVars, pc, op, log, clientVars,
                   args, tail, attachLen, yielded, cw, proc, outFile, info, execs, runVars>>

\* The command ends on its own (a command that sleeps for ever does not);
\* its children are taken to have ended with it.
ProcExit ==
    /\ proc.root = "running"
    /\ ~args.sleeps
    /\ proc' = [root |-> "exited", kids |-> FALSE]
    /\ UNCHANGED <<storeVars, pc, op, log, clientVars,
                   args, tail, attachLen, yielded, cw, pw, outFile, info, execs, runVars>>

\* ------------------------------------------------- the ways out of the loop
\* get_messages ended (for ... else at lines 146-155): ConnectionLost, here
\* in the main thread (the calls at lines 303 and 309), where nothing
\* catches it.
WaitMainLost ==
    /\ pc[LoopProc] = "wait_main"
    /\ FilesValid
    /\ AtEOF
    /\ exc' = "ConnectionLost"
    /\ pc' = [pc EXCEPT ![LoopProc] = "finally"]
    /\ UNCHANGED <<storeVars, op, log, clientVars, loopVars, events, watcher, kills, iters>>

\* The same in the thread spawned at line 333: the exception ends the
\* function that ThreadWaiter.wrap called.
WaitThreadLost ==
    /\ cw = "running"
    /\ FilesValid
    /\ AtEOF
    /\ cw' = "ConnectionLost"
    /\ UNCHANGED <<storeVars, pc, op, log, clientVars,
                   args, tail, attachLen, yielded, pw, proc, outFile, info, execs, runVars>>

\* Where the main thread is between two statements of the body of
\* "with state.with_listen(...)" (lines 298-353)
InLoopBody ==
    pc[LoopProc] \in {"resolve", "show_info", "wait_main", "render", "popen",
                      "communicate", "spawn", "waiter_wait", "kill_tree",
                      "p_wait", "event_wait"}

\* KeyboardInterrupt in the main thread (Ctrl-C), once.  Inside a critical
\* section it leaves with_json_data at the yield: the write-back is
\* skipped and the locks are released.
LoopInterrupt ==
    /\ exc = "none"
    /\ exc' = "KeyboardInterrupt"
    /\ \/ /\ InLoopBody
          /\ pc' = [pc EXCEPT ![LoopProc] = "finally"]
          /\ UNCHANGED result
       \/ /\ pc[LoopProc] = "enter"
          /\ pc' = [pc EXCEPT ![LoopProc] =
                      IF op[LoopProc].name = "with_listen" THEN "stop_client"
                      ELSE "finally"]
          /\ UNCHANGED result
       \/ /\ pc[LoopProc] \in {"body", "exit"}
          /\ result' = [result EXCEPT ![LoopProc] = Raised("KeyboardInterrupt", "SIGINT")]
          /\ pc' = [pc EXCEPT ![LoopProc] = "exit"]
    /\ UNCHANGED <<file, lockHolders, dataLock, local, lastSet, op, log, clientVars,
                   loopVars, events, watcher, kills, iters>>

\* with_listen, lines 181-185: the finally clause opens with_data again
LoopFinally ==
    /\ pc[LoopProc] = "finally"
    /\ op' = [op EXCEPT ![LoopProc] =
                [name |-> "with_listen_exit", listener |-> LoopProc, names |-> Triggers]]
    /\ pc' = [pc EXCEPT ![LoopProc] = "enter"]
    /\ UNCHANGED <<storeVars, log, clientVars, loopVars, runVars>>

\* with_client, lines 130-131: client.stop() kills the tail child; the
\* exception then leaves run_loop and main, and the process ends.
LoopStop ==
    /\ pc[LoopProc] = "stop_client"
    /\ tail' = [state |-> "stopped", pos |-> tail.pos]
    /\ pc' = [pc EXCEPT ![LoopProc] = "ended"]
    /\ UNCHANGED <<storeVars, op, log, clientVars,
                   args, attachLen, yielded, cw, pw, proc, outFile, info, execs, runVars>>

\* ------------------------------------------------------- specification
\* data.json at the start.  The file is an input of every process (read_json
\* decodes whatever is there): it is absent in a new data directory, or it
\* is a document left there earlier that holds an empty "parameters" map.
\* No operation of State adds the "parameters" key to a document without it.
InitialFiles ==
    {[exists |-> FALSE, data |-> EmptyDict],
     [exists |-> TRUE, data |-> Put(EmptyDict, "parameters", EmptyDict)]}

\* Documents left by earlier commands: one without a value for x, one in
\* which x is set.
SetFiles ==
    {[exists |-> TRUE, data |-> Put(EmptyDict, "parameters", EmptyDict)],
     [exists |-> TRUE,
      data |-> Put(Put(EmptyDict, "parameters", Put(EmptyDict, "x", "a")),
                   "parameter.history", Put(EmptyDict, "x", <<"a">>))]}

RunArgs(exprs, echo, flags) ==
    {[expr |-> e, listen |-> << >>, listen_file |-> << >>,
      echo |-> ec, kill |-> k, output |-> o, sleeps |-> s] :
        e \in exprs, ec \in echo, k \in flags, o \in flags, s \in flags}

InitFrom(files, runArgs) ==
    /\ file \in files
    /\ lockHolders = {}
    /\ dataLock = {}
    /\ pc = [p \in Procs |-> IF p = LoopProc THEN "start" ELSE "idle"]
    /\ cmd = [c \in Clients |-> NoOp]
    /\ op = [p \in Procs |-> NoOp]
    /\ local = [p \in Procs |-> EmptyDict]
    /\ result = [p \in Procs |-> NoResult]
    /\ ncmds = 0
    /\ lastSet = EmptyDict
    /\ log = << >>
    /\ args \in runArgs
    /\ tail = NoTail
    /\ attachLen = 0
    /\ yielded = << >>
    /\ cw = "none"
    /\ pw = "none"
    /\ proc = NoProcess
    /\ outFile = OldContent
    /\ info = {}
    /\ execs = << >>
    /\ exc = "none"
    /\ events = {}
    /\ watcher = NoWatcher
    /\ kills = {}
    /\ iters = 0

InitWith(runArgs) == InitFrom(InitialFiles, runArgs)

StoreNext == \E p \in Procs : Enter(p) \/ Body(p) \/ Exit(p)
EchoLoopNext ==
    LoopStart \/ LoopResolve \/ LoopShowInfo \/ LoopRender \/ WaitMainStep \/ TailAttach
ExecLoopNext ==
    \/ LoopPopen \/ LoopCommunicate \/ LoopSpawn \/ LoopWaiterWait \/ LoopKillTree
    \/ LoopPWait \/ LoopEventWait \/ WaitThreadStep \/ ProcWaitThread \/ ProcExit
    \/ \E t \in Tasks : WrapEventSet(t) \/ WrapSharedSet(t)
ExitLoopNext ==
    LoopInterrupt \/ TailDies \/ WaitMainLost \/ WaitThreadLost \/ LoopFinally \/ LoopStop

\* The parameter store under two client processes and a run loop started
\* with --echo (which reads the parameters and waits, and starts no command).
Init == InitWith(RunArgs({<<"x">>, <<"x", "y">>}, {TRUE}, {FALSE}))
StoreCommands == {SetCmd("x", "a"), SetCmd("x", "b"), SetCmd("y", "a"), ParamsCmd}
Next ==
    \/ StoreNext
    \/ \E c \in Clients : Invoke(c, StoreCommands) \/ Publish(c)
    \/ EchoLoopNext
Spec == Init /\ [][Next]_vars

\* The run loop executing its command, with one client process.
InitLoop == InitWith(RunArgs({<<"x">>}, {FALSE}, BOOLEAN))
LoopCommands == {SetCmd("x", "a"), SetCmd("x", "b"), SetCmd("y", "a"), ResetCmd("x")}
NextLoop ==
    \/ StoreNext
    \/ Invoke("c1", LoopCommands) \/ Publish("c1")
    \/ EchoLoopNext
    \/ ExecLoopNext
SpecLoop == InitLoop /\ [][NextLoop]_vars

\* Fair scheduling of what is runnable: every process inside or in front of
\* a critical section, the publishing client, the threads of the run loop,
\* the tail child and a command that ends by itself.  Nobody is obliged to
\* type another command.
FairSpecLoop ==
    /\ SpecLoop
    /\ \A p \in Procs : WF_vars(Enter(p) \/ Body(p) \/ Exit(p))
    /\ WF_vars(Publish("c1"))
    /\ WF_vars(EchoLoopNext \/ ExecLoopNext)

\* The setters: set and stream-param run by two client processes that may
\* stop between the commit and the push, and a run loop started with
\* --echo as the subscriber.
SetterCommands ==
    {SetCmd("x", "a"), SetCmd("x", "b"), StreamCmd("x", <<"a\n", "b\n">>)}
NextSetter ==
    \/ StoreNext
    \/ \E c \in Clients : Invoke(c, SetterCommands) \/ Publish(c) \/ SetterStops(c)
    \/ EchoLoopNext
SpecSetter == Init /\ [][NextSetter]_vars

\* The run loop executing its command while its tail child may die, the
\* threads of the ThreadWaiter scheduled fairly.
WaiterArgs ==
    {b \in RunArgs({<<"x">>}, {FALSE}, BOOLEAN) : b.output => ~(b.kill \/ b.sleeps)}
InitWaiter == InitFrom(SetFiles, WaiterArgs)
WaiterCommands == {ResetCmd("x")}
NextWaiter ==
    \/ StoreNext
    \/ Invoke("c1", WaiterCommands) \/ Publish("c1")
    \/ EchoLoopNext
    \/ ExecLoopNext
    \/ TailDies \/ WaitMainLost \/ WaitThreadLost \/ LoopFinally \/ LoopStop
SpecWaiter == InitWaiter /\ [][NextWaiter]_vars
FairSpecWaiter ==
    /\ SpecWaiter
    /\ \A t \in Tasks : WF_vars(WrapEventSet(t)) /\ WF_vars(WrapSharedSet(t))

\* The run loop and the ways it ends: Ctrl-C, and the death of its tail
\* child.  data.json is absent, or it is a document in which another run
\* loop (its client id is "other") is listening.
OtherListener == "other"
ListenedFiles ==
    {[exists |-> FALSE, data |-> EmptyDict],
     [exists |-> TRUE,
      data |-> Put(Put(EmptyDict, "parameters", EmptyDict),
                   "listened", Put(Put(EmptyDict, "x", <<OtherListener>>),
                                   "y", <<OtherListener>>))]}
ExitArgs ==
    {[a EXCEPT !.listen = l] :
        a \in {b \in RunArgs({<<"x">>}, BOOLEAN, BOOLEAN) :
                  /\ b.echo => ~(b.kill \/ b.output \/ b.sleeps)
                  /\ b.output => ~(b.kill \/ b.sleeps)},
        l \in {<<"x">>, <<"y">>}}
InitExit == InitFrom(ListenedFiles, ExitArgs)
ExitCommands == {SetCmd("x", "a"), SetCmd("y", "a")}
NextExit ==
    \/ StoreNext
    \/ Invoke("c1", ExitCommands) \/ Publish("c1")
    \/ EchoLoopNext
    \/ ExecLoopNext
    \/ ExitLoopNext
SpecExit == InitExit /\ [][NextExit]_vars

\* The run loop with --listen-file.  The names given: none, a file by its
\* full name, the same file relative to the working directory, the same
\* file by a full name with "." in it, and a directory.
ListenFileArgs ==
    {<< >>, << <<"/", "w", "f">> >>, << <<"f">> >>, << <<"/", "w", ".", "f">> >>,
     << <<"/", "w", "d">> >>}
FileArgs ==
    {[a EXCEPT !.listen_file = fs] :
        a \in {b \in RunArgs({<<"x">>}, BOOLEAN, BOOLEAN) :
                  /\ b.echo => ~(b.kill \/ b.output \/ b.sleeps)
                  /\ b.output => ~(b.kill \/ b.sleeps)},
        fs \in ListenFileArgs}
InitFiles == InitFrom(SetFiles, FileArgs)
FileCommands == {ResetCmd("x"), ResetCmd("y")}
FilesLoopNext ==
    \/ FileWatcherRun \/ FileWatcherStep \/ WaitMainInvalid \/ WaitThreadInvalid
    \/ LoopFinally \/ LoopStop
NextFiles ==
    \/ StoreNext
    \/ Invoke("c1", FileCommands) \/ Publish("c1")
    \/ EchoLoopNext
    \/ ExecLoopNext
    \/ FilesLoopNext
SpecFiles == InitFiles /\ [][NextFiles]_vars

\* The run loop executing a command that ends by itself, the template
\* referring to x and y, beside two client processes that set them.  The
\* document left by earlier commands has no value yet, or a value for each.
ConvergeFiles ==
    {[exists |-> TRUE, data |-> Put(EmptyDict, "parameters", EmptyDict)],
     [exists |-> TRUE,
      data |-> Put(Put(EmptyDict, "parameters", Put(Put(EmptyDict, "x", "a"), "y", "a")),
                   "parameter.history", Put(Put(EmptyDict, "x", <<"a">>), "y", <<"a">>))]}
ConvergeArgs == {b \in RunArgs({<<"x", "y">>}, {FALSE}, BOOLEAN) : ~b.sleeps}
InitConverge == InitFrom(ConvergeFiles, ConvergeArgs)
ConvergeCommands == {SetCmd("x", "a"), SetCmd("x", "b"), SetCmd("y", "b")}
NextConverge ==
    \/ StoreNext
    \/ \E c \in Clients : Invoke(c, ConvergeCommands) \/ Publish(c)
    \/ EchoLoopNext
    \/ ExecLoopNext
SpecConverge == InitConverge /\ [][NextConverge]_vars
\* Fair scheduling as in FairSpecLoop, for both clients.
FairSpecConverge ==
    /\ SpecConverge
    /\ \A p \in Procs : WF_vars(Enter(p) \/ Body(p) \/ Exit(p))
    /\ \A c \in Clients : WF_vars(Publish(c))
    /\ WF_vars(EchoLoopNext \/ ExecLoopNext)

\* ---------------------------------------------------------------- claims
\* What the document on disk says about a name
HasValue(f, k) == Has(read_json(f), "parameters") /\ Has(read_json(f)["parameters"], k)
ValueOf(f, k) == read_json(f)["parameters"][k]
HistoryOf(f, k) ==
    IF Has(read_json(f), "parameter.history") /\ Has(read_json(f)["parameter.history"], k)
    THEN read_json(f)["parameter.history"][k]
    ELSE << >>

\* C1: once a call set({P: V}) has ended and no later set on P has, the
\* document holds parameters[P] = V and history[P] ends with V, and a
\* get_values([P]) that has read the document returns V for P.  This is
\* to hold from every document, the absent one included.
C1_SetThenGet ==
    \A k \in DOMAIN lastSet :
        /\ HasValue(file, k)
        /\ ValueOf(file, k) = lastSet[k]
        /\ HistoryOf(file, k) # << >>
        /\ Last(HistoryOf(file, k)) = lastSet[k]
        /\ \A p \in Procs :
              (pc[p] = "exit" /\ op[p].name = "get_values" /\ op[p].keys = <<k>>)
              => (result[p].kind = "return" /\ result[p].value[k] = lastSet[k])

\* C2: a get_values(keys) that finds some key without a value raises
\* MissingParameter (ShfrpNoValue) naming the first such key in the order
\* of keys, whatever the document read, the empty one included.
UnsetKeys(data, keys) ==
    {i \in DOMAIN keys : ~(Has(data, "parameters") /\ Has(data["parameters"], keys[i]))}

C2_FirstUnsetKey ==
    \A p \in Procs :
        (pc[p] = "exit" /\ op[p].name = "get_values"
            /\ UnsetKeys(local[p], op[p].keys) # {})
        => result[p] = Raised("ShfrpNoValue",
                              op[p].keys[Min(UnsetKeys(local[p], op[p].keys))])

\* C3: when two set commands of different processes on different keys have
\* both ended, the document holds a value and a history entry for both
\* keys: the value each wrote is in the history of its key, and is the
\* current value unless a later set on that key has ended.
Ended(c) == pc[c] \in {"done", "crashed", "publish"}

C3_NoLostWrite ==
    \A c \in Clients : \A d \in Clients \ {c} :
        (/\ Ended(c) /\ Ended(d)
         /\ cmd[c].name = "set" /\ cmd[d].name = "set"
         /\ cmd[c].key # cmd[d].key)
        => \A e \in {c, d} :
              /\ HasValue(file, cmd[e].key)
              /\ cmd[e].value \in Range(HistoryOf(file, cmd[e].key))
              /\ (lastSet[cmd[e].key] = cmd[e].value
                    => ValueOf(file, cmd[e].key) = cmd[e].value)

\* C4: the subscriber yields exactly the lines appended to the events file
\* after its tail began to follow, in the order they were appended: none
\* from before, none skipped, and the next line it will yield is the next
\* one appended.
C4_OnlyAfterAttach ==
    /\ Len(yielded) <= Len(log) - attachLen
    /\ yielded = SubSeq(log, attachLen + 1, attachLen + Len(yielded))
    /\ (tail.state = "following" /\ attachLen + Len(yielded) < Len(log))
         => (HasLine /\ NextMessage = log[attachLen + Len(yielded) + 1])

\* Reached: one line was appended before the tail followed, one after, and
\* that one was yielded.
C4_Witness ==
    /\ tail.state = "following"
    /\ attachLen >= 1
    /\ Len(yielded) >= 1

\* C5: wait_for_changes(names, files) returns only in the step that consumes
\* a parameter_update whose changed names meet names, or a file_change whose
\* file is in files; a message consumed without returning is not of that
\* kind.
Relevant(message) ==
    \/ /\ message.type = "parameter_update"
       /\ \E n \in Range(message.changed) : n \in Range(Triggers)
    \/ /\ message.type = "file_change"
       /\ message.file \in Range(ListenFiles)

WaitReturns ==
    \/ pc[LoopProc] = "wait_main" /\ pc'[LoopProc] # "wait_main"
    \/ cw = "running" /\ cw' = "done"

Consumes == Len(yielded') = Len(yielded) + 1

XUnset == ~HasValue(file, "x")

SetXAfterInfo ==
    /\ pc[LoopProc] = "wait_main"
    /\ info # {}
    /\ tail.state = "following"
    /\ tail.pos = Len(log)
    /\ XUnset
    /\ ncmds = 1
    /\ pc["c1"] = "enter"
    /\ cmd["c1"].name = "set"
    /\ cmd["c1"].key = "x"

C6_WakesOnSet ==
    /\ [](XUnset => (execs = << >> /\ proc.root = "none"))
    /\ []((info # {} /\ ncmds = 1 /\ cmd["c1"].name = "set" /\ cmd["c1"].key = "x")
            => (execs = << >> \/ execs = << <<cmd["c1"].value>> >>))
    /\ SetXAfterInfo ~> (execs # << >>)

\* C7: with --kill, whatever the output routing, a matching notification
\* that arrives while the command is running (a command that would go on
\* sleeping) leads to the process and its descendants being killed, and
\* then to the next iteration of the loop.
NotifiedWhileRunning ==
    /\ args.kill
    /\ args.sleeps
    /\ proc.root = "running"
    /\ tail.state = "following"
    /\ \E i \in (tail.pos + 1)..Len(log) : Relevant(log[i])

C7_KilledOnChange ==
    /\ NotifiedWhileRunning ~> (proc.root = "killed" /\ ~proc.kids)
    /\ (proc.root = "killed") ~> (pc[LoopProc] = "resolve")

\* C8: with an output file configured, the output file is at every moment
\* its earlier content or the complete output of an execution that has
\* finished: never empty by truncation, never partly written.
C8_OutputNeverTruncated ==
    args.output =>
        \/ outFile = OldContent
        \/ \E i \in DOMAIN execs : outFile = OutputOf(execs[i])

\* C9: outside a critical section, for every key: parameters[k] has a
\* value exactly when history[k] is not empty, and then history[k] ends
\* with that value; history[k] only grows at its end, and a key that has a
\* value keeps having one.
IsPrefix(s, t) == Len(s) <= Len(t) /\ s = SubSeq(t, 1, Len(s))

DocumentConsistent(f) ==
    \A k \in Names :
        /\ HasValue(f, k) <=> (HistoryOf(f, k) # << >>)
        /\ HasValue(f, k) => Last(HistoryOf(f, k)) = ValueOf(f, k)

C9_HistoryMatchesValue ==
    /\ [](lockHolders = {} => DocumentConsistent(file))
    /\ [][\A k \in Names :
            /\ IsPrefix(HistoryOf(file, k), HistoryOf(file', k))
            /\ HasValue(file, k) => HasValue(file', k)]_vars

\* Reached: a key set twice, with both values in its history, nobody in a
\* critical section.
C9_Witness ==
    /\ lockHolders = {}
    /\ \E k \in Names : HasValue(file, k) /\ Len(HistoryOf(file, k)) = 2

\* C10: at most one process is between reading the document and the end of
\* its write-back, whatever the operation: set, get_values, with_listen,
\* with_listened.
InCriticalSection(p) == pc[p] \in {"body", "exit"}

C10_MutualExclusion ==
    Cardinality({p \in Procs : InCriticalSection(p)}) <= 1

\* Reached: a reading operation is inside its critical section while a set
\* of another process waits for the lock.
C10_Witness ==
    \E p \in Procs : \E q \in Procs \ {p} :
        /\ InCriticalSection(p)
        /\ op[p].name \in {"get_values", "with_listened"}
        /\ pc[q] = "enter"
        /\ op[q].name = "set"

\* C11: while the run loop is running (from its registration to the
\* moment an exception leaves the loop body) its listener id is in
\* listened[n] for every name n of the template and of --listen; once the
\* loop has been left, by an interrupt or by an error, the id is in no
\* list; and no step changes what the lists hold of other listeners.
Listened(f) ==
    IF Has(read_json(f), "listened") THEN read_json(f)["listened"] ELSE EmptyDict
ListenersOf(f, n) == IF Has(Listened(f), n) THEN Listened(f)[n] ELSE << >>
IsOther(l) == l # LoopProc
OthersOf(f, n) == SelectSeq(ListenersOf(f, n), IsOther)

LoopRunning ==
    \/ InLoopBody
    \/ pc[LoopProc] \in {"enter", "body", "exit"} /\ op[LoopProc].name = "get_values"
LoopLeft == pc[LoopProc] \in {"stop_client", "ended"}

C11_ListenedWhileRunning ==
    /\ [](LoopRunning =>
            \A n \in Range(Triggers) : LoopProc \in Range(ListenersOf(file, n)))
    /\ [](LoopLeft =>
            \A n \in DOMAIN Listened(file) : LoopProc \notin Range(ListenersOf(file, n)))
    /\ [][\A n \in DOMAIN Listened(file) \cup DOMAIN Listened(file') :
            OthersOf(file', n) = OthersOf(file, n)]_vars

\* Reached: a loop that had started its command was ended by an exception
\* of the loop body, and the document still holds the other listener.
C11_Witness ==
    /\ pc[LoopProc] = "ended"
    /\ exc # "none"
    /\ execs # << >>
    /\ args.listen # << >>
    /\ op[LoopProc].name = "with_listen_exit"
    /\ ListenersOf(file, "x") = <<OtherListener>>

\* C12: when the subscriber's stream has ended and the change-wait has
\* failed with ConnectionLost, in the main thread or in the thread that
\* waits while a command is executing, the run loop starts no further
\* iteration: the main thread does not go back to the top of the loop.
ConnectionLostRaised == exc = "ConnectionLost" \/ cw = "ConnectionLost"

C12_ConnectionLostEndsLoop ==
    [][ConnectionLostRaised =>
          (iters' = iters /\ pc'[LoopProc] # "resolve")]_vars

\* C13: a run loop given a --listen-file name that is not absolute has
\* failed before its file watcher watches anything, before any command is
\* started and before it reads anything from the event bus: no state has
\* such a loop with a watching watcher, a started command or a message
\* consumed, and its change-wait never fails without ending the loop.
C13_RelativeNameFailsFirst ==
    ~FilesValid =>
        /\ watcher.state # "watching"
        /\ execs = << >>
        /\ yielded = << >>
        /\ cw # "ValueError"

\* C14: with --kill, a call of kill_tree that signals the command was
\* made when the change-wait had ended; a call made while the change-wait
\* was still waiting (the exit of the command ended the race) signals no
\* process at all: it finds the process gone and that is not an error.
C14_KillOnlyOnChange ==
    \A k \in kills :
        /\ k.hit = "command" => Finished(k.cw)
        /\ k.cw = "running" => k.hit = "nobody"

\* C15: without --kill the command is never killed, whatever arrives
\* while it runs: kill_tree is not called, the main thread stays between
\* Popen and the return of p.wait() for as long as the command is alive
\* (so it cannot start another one) unless an exception is ending the
\* loop, and it leaves p.wait() only when the command has exited on its own.
C15_RunsToCompletion ==
    /\ [](~args.kill => (proc.root # "killed" /\ kills = {}))
    /\ []((~args.kill /\ proc.root = "running" /\ exc = "none")
            => pc[LoopProc] \in {"communicate", "spawn", "p_wait"})
    /\ [][(~args.kill /\ pc[LoopProc] = "p_wait" /\ pc'[LoopProc] # "p_wait")
            => proc.root = "exited"]_vars

\* Reached: without --kill, the change-wait has returned on a matching
\* message while the command was still running.
C15_Witness ==
    /\ ~args.kill
    /\ proc.root = "running"
    /\ cw = "done"
    /\ "cw" \in events
    /\ Relevant(Last(yielded))

\* C16: an iteration after the first is started only when the change-wait
\* of the one before has consumed a matching message: the iterations
\* started are at most one more than the matching messages consumed, each
\* iteration consumes at most one of them, and so the iterations started
\* are at most one more than the matching messages appended to the events
\* file since the tail began to follow.
MatchingConsumed == Cardinality({i \in DOMAIN yielded : Relevant(yielded[i])})
MatchingPublished ==
    Cardinality({i \in (attachLen + 1)..Len(log) : Relevant(log[i])})

C16_OneIterationPerMessage ==
    /\ iters <= 1 + MatchingConsumed
    /\ MatchingConsumed <= iters
    /\ iters <= 1 + MatchingPublished

\* C17: a parameter_update message of a set is in the events file only
\* when the set it announces has been committed to the document; a
\* subscriber woken by such a message reads, in the get_values that
\* follows, the value set or one committed after it (it is never that
\* name that get_values finds missing); and a setter that
\* stopped between the commit and the push has left its value in the
\* document and no message: for every name and value, the messages
\* published and the setters stopped are together no more than the
\* commits of that value.
Count(s, v) == Cardinality({i \in DOMAIN s : s[i] = v})
Announces(message, k, v) ==
    /\ message.type = "parameter_update"
    /\ message.changes # None
    /\ Has(message.changes, k)
    /\ message.changes[k] = v
Announced(k, v) == Cardinality({i \in DOMAIN log : Announces(log[i], k, v)})
StoppedSetters(k, v) ==
    Cardinality({c \in Clients : pc[c] = "stopped" /\ op[c].pairs = Put(EmptyDict, k, v)})
SetValues == Values \cup {"a\n", "b\n"}
SinceFirst(hist, v) ==
    {hist[j] : j \in {i \in DOMAIN hist : \E h \in 1..i : hist[h] = v}}

C17_PublishedAfterCommit ==
    /\ \A k \in Names : \A v \in SetValues :
          Announced(k, v) + StoppedSetters(k, v) <= Count(HistoryOf(file, k), v)
    /\ \A k \in Range(needed_args) : \A v \in SetValues :
          (/\ pc[LoopProc] = "exit"
           /\ op[LoopProc].name = "get_values"
           /\ yielded # << >>
           /\ Announces(Last(yielded), k, v))
          => IF result[LoopProc].kind = "return"
             THEN result[LoopProc].value[k] \in SinceFirst(HistoryOf(file, k), v)
             ELSE result[LoopProc].key # k

\* Reached: a setter has stopped after its commit, another set of a
\* different value was published, and the subscriber woken by that message
\* has read the document.
C17_Witness ==
    /\ \E c \in Clients : pc[c] = "stopped"
    /\ pc[LoopProc] = "exit"
    /\ op[LoopProc].name = "get_values"
    /\ yielded # << >>
    /\ \E v \in SetValues :
          /\ Announces(Last(yielded), "x", v)
          /\ \E c \in Clients : pc[c] = "stopped" /\ op[c].pairs["x"] # v

\* C18: a task's event is set only when its function has ended, and the
\* shared event only when the function of some task has; waiter.wait()
\* returns only then; and once a task's function has returned or raised,
\* its own event and the shared event come to be set.
SomeTaskFinished == \E t \in Tasks : Finished(TaskState(t))
BothSet(t) == {t, "shared"} \subseteq events

C18_SignalsAfterFinish ==
    /\ [](\A t \in Tasks : t \in events => Finished(TaskState(t)))
    /\ []("shared" \in events => SomeTaskFinished)
    /\ [][(pc[LoopProc] = "waiter_wait" /\ pc'[LoopProc] # "waiter_wait")
            => SomeTaskFinished]_vars
    /\ Finished(cw) ~> BothSet("cw")
    /\ Finished(pw) ~> BothSet("pw")

\* Reached: waiter.wait() has returned because the change-wait raised
\* ConnectionLost, while the wait for the process goes on.
C18_Witness ==
    /\ pc[LoopProc] = "kill_tree"
    /\ cw = "ConnectionLost"
    /\ pw = "running"
    /\ BothSet("cw")

\* C19: a reset P command never enters a critical section of the
\* document; its one step that publishes leaves the document as it is and
\* appends one parameter_update message with changes None and changed
\* exactly [P]; a change-wait whose names include P returns in the step
\* that consumes such a message, and a change-wait that has it next in its
\* stream comes to consume it.
IsResetOf(message, k) ==
    /\ message.type = "parameter_update"
    /\ message.changes = None
    /\ message.changed = <<k>>
Resetting(c) == cmd[c].name = "reset" /\ pc[c] = "publish"
ResetIsNext(k) ==
    /\ pc[LoopProc] = "wait_main" \/ cw = "running"
    /\ HasLine
    /\ IsResetOf(NextMessage, k)
    /\ k \in Range(Triggers)

C19_ResetOnlyPublishes ==
    /\ [](\A c \in Clients : cmd[c].name = "reset" => pc[c] \in {"publish", "done"})
    /\ [][\A c \in Clients :
            (Resetting(c) /\ pc'[c] # "publish")
            => /\ file' = file
               /\ Len(log') = Len(log) + 1
               /\ IsResetOf(Last(log'), cmd[c].parameter)]_vars
    /\ [][\A k \in Names :
            (Consumes /\ IsResetOf(Last(yielded'), k) /\ k \in Range(Triggers))
            => WaitReturns]_vars
    /\ ResetIsNext("x") ~> (yielded # << >> /\ IsResetOf(Last(yielded), "x"))

\* Reached: the change-wait that runs beside the command has returned on
\* the message of a reset, the document being what it was before the reset.
C19_Witness ==
    /\ cw = "done"
    /\ yielded # << >>
    /\ IsResetOf(Last(yielded), "x")
    /\ cmd["c1"].name = "reset"
    /\ pc["c1"] = "done"
    /\ execs # << >>

\* C20: for a run loop started with --listen-file names that are all
\* absolute, every file_change message in the events file carries one of
\* the names as they were given (so that the loop's change-wait returns on
\* it), and a change-wait returns in the step that consumes such a message;
\* without --listen-file there is no file watcher.
FileChanges == {i \in DOMAIN log : log[i].type = "file_change"}

C20_FileChangeNamesListened ==
    /\ FilesValid => \A i \in FileChanges : log[i].file \in Range(ListenFiles)
    /\ ListenFiles = << >> => (watcher.state = "none" /\ FileChanges = {})

\* C21: for a run loop that executes a command that ends by itself, when
\* every name the template refers to has a value and every set command on
\* such a name has completed (pushed its message) after the loop's
\* subscriber attached, then under fair scheduling, from some moment on,
\* the loop has started the command and the execution it started last is
\* the command rendered with the values the document then holds, which
\* are the final ones.
IsSetOfReferenced(message) ==
    /\ message.type = "parameter_update"
    /\ message.changes # None
    /\ \E k \in Range(needed_args) : Has(message.changes, k)
AllSet == \A k \in Range(needed_args) : HasValue(file, k)
SetsAfterAttach ==
    /\ tail.state = "following"
    /\ \A i \in 1..attachLen : ~IsSetOfReferenced(log[i])
FinalCommand == [i \in DOMAIN args.expr |-> ValueOf(file, args.expr[i])]
LastExecFinal == execs # << >> /\ Last(execs) = FinalCommand

C21_EventuallyFinalValues == <>[]((AllSet /\ SetsAfterAttach) => LastExecFinal)

\* Reached: both clients have set, after the subscriber attached, a value
\* other than the one the command was first started with; the loop has
\* read both messages and started the command again, with the values the
\* document holds, and waits.
C21_Witness ==
    /\ AllSet
    /\ SetsAfterAttach
    /\ ncmds = MaxCmds
    /\ \A c \in Clients : pc[c] = "done" /\ cmd[c].name = "set"
    /\ Cardinality({i \in DOMAIN log : IsSetOfReferenced(log[i])}) = MaxCmds
    /\ tail.pos = Len(log)
    /\ cw = "running"
    /\ Len(execs) > 1
    /\ execs[1] # FinalCommand
    /\ LastExecFinal
====
